---- MODULE Spec2Model ----
(***************************************************************************)
(* Kernel Debug Kit downloader (resources/kdk_handler.py):                 *)
(* kernel_debug_kit_handler.download_kdk and the methods it calls.         *)
(*                                                                         *)
(* Strings that the code takes apart are sequences of tokens:              *)
(*   - a build is a sequence of tokens, "" is << >>;                       *)
(*   - a directory name is a sequence of tokens, so that                   *)
(*     name.endswith(f"{build}.kdk") is a real suffix test;                *)
(*   - a version string is a sequence of integers, one per dotted          *)
(*     component; a negative token stands for non-numeric text             *)
(*     ("14.4 beta 2" is <<14, 4, -1>>, "Rhapsody" is <<-1>>).             *)
(***************************************************************************)
EXTENDS Integers, Sequences, FiniteSets, TLC

VARIABLES
    cache,                        \* directory listing of /Library/Developer/KDKs
    kdk_root_exists,              \* Path("/Library/Developer/KDKs").exists()
    should_nuke_kdks,             \* constants.should_nuke_kdks
    pc,                           \* position inside download_kdk
    version, build,               \* arguments of download_kdk
    kdk_list,                     \* local kdk_list (None is fetched = FALSE)
    legacy_db,                    \* results of the AppleDB request, when made
    download_link,
    closest_match_download_link,
    closest_version,
    closest_build,
    result,                       \* local result of download_kdk
    outcome,                      \* "none", "returned" or "raised"
    ret,                          \* the returned triple
    kdk_download_path,            \* artifact at constants.kdk_download_path
    installed_at_start,           \* value of line 131's is_kdk_installed
    cache0,                       \* cache when download_kdk was entered
    log,                          \* requests and cache operations of the call
    calls,                        \* two callers of download_kdk on one cache
    serialized                    \* the callers run one call at a time

vars == <<cache, kdk_root_exists, should_nuke_kdks, pc, version, build, kdk_list,
          legacy_db, download_link, closest_match_download_link, closest_version,
          closest_build, result, outcome, ret, kdk_download_path,
          installed_at_start, cache0, log, calls, serialized>>

\* ------------------------------------------------------------- bounds
MaxCatalog == 2          \* entries in a KDK API response
MaxDb == 2               \* entries in an AppleDB response
MaxReleases == 1         \* releases in a mirror response
MaxExclude == 2          \* builds in a direct remove_unused_kdks call

\* ------------------------------------------------------------- strings
EndsWith(name, suffix) ==
    /\ Len(name) >= Len(suffix)
    /\ SubSeq(name, Len(name) - Len(suffix) + 1, Len(name)) = suffix

\* f"{build}.kdk"
KdkSuffix(b) == b \o <<".kdk">>

EmptyBuild == << >>
B_23E214 == <<"23E214">>
B_23D60 == <<"23D60">>
B_23E5180j == <<"23E5180j">>
B_23F79 == <<"23F79">>
B_22F66 == <<"22F66">>
B_23E224 == <<"23E224">>
B_23E5211a == <<"23E5211a">>

\* ------------------------------------------------------------- versions
\* packaging.version.parse of a well-formed release string: 14.4 == 14.4.0
ParseVersion(s) == <<s[1], s[2], IF Len(s) >= 3 THEN s[3] ELSE 0>>

Major(v) == v[1]
Minor(v) == v[2]

VersionLt(a, b) ==
    \/ a[1] < b[1]
    \/ a[1] = b[1] /\ a[2] < b[2]
    \/ a[1] = b[1] /\ a[2] = b[2] /\ a[3] < b[3]

VersionLeq(a, b) == a = b \/ VersionLt(a, b)

\* VERSION_PATTERN.match(s): the leading \d+\.\d+(\.\d+)? of s, << >> for no match
VersionPatternMatch(s) ==
    IF Len(s) >= 2 /\ s[1] >= 0 /\ s[2] >= 0
    THEN IF Len(s) >= 3 /\ s[3] >= 0 THEN SubSeq(s, 1, 3) ELSE SubSeq(s, 1, 2)
    ELSE << >>

\* ------------------------------------------------------------- links
NoLink == [host |-> "", version |-> << >>, build |-> << >>]

generate_kdk_link(v, b) ==
    [host |-> "download.developer.apple.com", version |-> v, build |-> b]

MirrorUrl(tag) == [host |-> "github.com", version |-> << >>, build |-> tag]

\* "github" in download_link
ContainsGithub(link) == link.host = "github.com"

\* ------------------------------------------------------------- sorting
\* keys are <<major, minor, patch, date>>
KeyLt(a, b) ==
    \/ VersionLt(<<a[1], a[2], a[3]>>, <<b[1], b[2], b[3]>>)
    \/ a[1] = b[1] /\ a[2] = b[2] /\ a[3] = b[3] /\ a[4] < b[4]

\* position of a new pair in a list sorted in descending key order: after every
\* pair whose key is not smaller (sorted(..., reverse=True) is stable)
RECURSIVE InsertPos(_, _, _)
InsertPos(sorted, k, i) ==
    IF i > Len(sorted) THEN i
    ELSE IF KeyLt(sorted[i][1], k) THEN i
    ELSE InsertPos(sorted, k, i + 1)

InsertDesc(sorted, p) ==
    LET i == InsertPos(sorted, p[1], 1)
    IN  SubSeq(sorted, 1, i - 1) \o <<p>> \o SubSeq(sorted, i, Len(sorted))

RECURSIVE SortPairsDesc(_)
SortPairsDesc(pairs) ==
    IF pairs = << >> THEN << >>
    ELSE InsertDesc(SortPairsDesc(SubSeq(pairs, 1, Len(pairs) - 1)), pairs[Len(pairs)])

\* ------------------------------------------------------------- local cache
kexts_to_check == {"Libkern", "apfs", "IOUSBHostFamily", "AMDRadeonX6000"}

Dir(name, kexts) == [name |-> name, is_dir |-> TRUE, kexts |-> kexts]
File(name) == [name |-> name, is_dir |-> FALSE, kexts |-> {}]

Names(c) == {f.name : f \in c}

IsKdkInstalledOutcomes_KeepCorrupt(c, exists, b) ==
    IF ~exists THEN {[ret |-> FALSE, cache |-> c]}
    ELSE LET M == {f \in c : f.is_dir /\ EndsWith(f.name, KdkSuffix(b))}
         IN  IF M = {} THEN {[ret |-> FALSE, cache |-> c]}
             ELSE {[ret |-> TRUE, cache |-> c]}

\* is_kdk_installed(build): iterdir yields the entries in an order the file system
\* chooses; the first directory with the suffix decides the call.
IsKdkInstalledOutcomes(c, exists, b) ==
    IF ~exists THEN {[ret |-> FALSE, cache |-> c]}
    ELSE LET M == {f \in c : f.is_dir /\ EndsWith(f.name, KdkSuffix(b))}
         IN  IF M = {} THEN {[ret |-> FALSE, cache |-> c]}
             ELSE {IF kexts_to_check \subseteq f.kexts
                   THEN [ret |-> TRUE, cache |-> c]
                   ELSE [ret |-> FALSE, cache |-> c \ {f}] : f \in M}

\* lines 264-270: should_remove for one folder
ShouldRemove_NoExclude(name, exclude_builds) == TRUE

ShouldRemove_EmptyProtects(name, exclude_builds) ==
    ~ \E i \in 1..Len(exclude_builds) :
        EndsWith(name, KdkSuffix(exclude_builds[i]))

ShouldRemove(name, exclude_builds) ==
    ~ \E i \in 1..Len(exclude_builds) :
        /\ exclude_builds[i] # EmptyBuild
        /\ EndsWith(name, KdkSuffix(exclude_builds[i]))

\* remove_unused_kdks(exclude_builds): the listing it leaves
RemoveUnusedKdks_NoEmptyGuard(c, exists, nuke, exclude_builds) ==
    IF nuke = FALSE THEN c
    ELSE IF ~exists THEN c
    ELSE {f \in c : ~(/\ f.is_dir
                      /\ EndsWith(f.name, <<".kdk">>)
                      /\ ShouldRemove(f.name, exclude_builds))}

RemoveUnusedKdks_StopAfterFirst(c, exists, nuke, exclude_builds) ==
    IF nuke = FALSE THEN c
    ELSE IF ~exists THEN c
    ELSE IF exclude_builds = << >> THEN c
    ELSE LET R == {f \in c : /\ f.is_dir
                             /\ EndsWith(f.name, <<".kdk">>)
                             /\ ShouldRemove(f.name, exclude_builds)}
         IN  IF R = {} THEN c ELSE c \ {CHOOSE f \in R : TRUE}

RemoveUnusedKdks(c, exists, nuke, exclude_builds) ==
    IF nuke = FALSE THEN c
    ELSE IF ~exists THEN c
    ELSE IF exclude_builds = << >> THEN c
    ELSE {f \in c : ~(/\ f.is_dir
                      /\ EndsWith(f.name, <<".kdk">>)
                      /\ ShouldRemove(f.name, exclude_builds))}

\* ------------------------------------------------------------- KDK API
None_kdk_list == [fetched |-> FALSE, list |-> << >>]

Kdk(v, b, d) == [version |-> v, build |-> b, date |-> d, url |-> generate_kdk_link(v, b)]

\* records the KDK API can list
KdkUniverse ==
    { Kdk(<<14, 4>>, B_23E214, 20240307),
      Kdk(<<14, 3>>, B_23D60, 20240122),
      Kdk(<<14, 4>>, B_23E5180j, 20240131),
      Kdk(<<14, 5>>, B_23F79, 20240513),
      Kdk(<<13, 4>>, B_22F66, 20230518) }

RECURSIVE SeqsUpTo(_, _)
SeqsUpTo(S, n) ==
    IF n = 0 THEN {<< >>}
    ELSE LET shorter == SeqsUpTo(S, n - 1)
         IN  shorter \cup {Append(s, x) : s \in {t \in shorter : Len(t) = n - 1}, x \in S}

Response(raised, status, body) == [raised |-> raised, status_code |-> status, json |-> body]

KdkApiResponses ==
    {Response(TRUE, 0, << >>), Response(FALSE, 503, << >>)}
        \cup {Response(FALSE, 200, l) : l \in SeqsUpTo(KdkUniverse, MaxCatalog)}

\* line 39: the sort key of a KDK API record
KdkKey(x) == ParseVersion(x.version) \o <<x.date>>

Project2(pairs) == [i \in 1..Len(pairs) |-> pairs[i][2]]

\* get_available_kdks(): None, or the records sorted by (version, date), newest first
get_available_kdks(resp) ==
    IF resp.raised THEN None_kdk_list
    ELSE IF resp.status_code # 200 THEN None_kdk_list
    ELSE [fetched |-> TRUE,
          list |-> Project2(SortPairsDesc([i \in 1..Len(resp.json) |->
                                             <<KdkKey(resp.json[i]), resp.json[i]>>]))]

\* line 145: "if kdk_list:" is false for None and for an empty list
Truthy(l) == l.fetched /\ l.list # << >>

ClosestQualifies_AnyMajor(kdk_version, parsed_version) ==
    /\ VersionLeq(kdk_version, parsed_version)
    /\ (Minor(kdk_version) = Minor(parsed_version)
        \/ Minor(kdk_version) = Minor(parsed_version) - 1)

\* line 150: the closest-match test of one record
ClosestQualifies(kdk_version, parsed_version) ==
    /\ VersionLeq(kdk_version, parsed_version)
    /\ Major(kdk_version) = Major(parsed_version)
    /\ (Minor(kdk_version) = Minor(parsed_version)
        \/ Minor(kdk_version) = Minor(parsed_version) - 1)

Candidates(dl, cl, cv, cb) ==
    [download_link |-> dl, closest_match_download_link |-> cl,
     closest_version |-> cv, closest_build |-> cb]

\* lines 146-154 with the closest match stored in download_link
RECURSIVE ScanKdkList_ClosestAsPrimary(_, _, _, _, _)
ScanKdkList_ClosestAsPrimary(list, i, v, b, acc) ==
    IF i > Len(list) THEN acc
    ELSE LET kdk == list[i]
             kdk_version == ParseVersion(kdk.version)
         IN  IF kdk.build = b
             THEN ScanKdkList_ClosestAsPrimary(list, i + 1, v, b,
                      [acc EXCEPT !.download_link = kdk.url])
             ELSE IF /\ acc.closest_match_download_link = NoLink
                     /\ ClosestQualifies(kdk_version, ParseVersion(v))
             THEN ScanKdkList_ClosestAsPrimary(list, i + 1, v, b,
                      [acc EXCEPT !.download_link = kdk.url,
                                  !.closest_match_download_link = kdk.url,
                                  !.closest_version = kdk.version,
                                  !.closest_build = kdk.build])
             ELSE ScanKdkList_ClosestAsPrimary(list, i + 1, v, b, acc)

\* lines 146-154: the scan of the list, from record i on
RECURSIVE ScanKdkList(_, _, _, _, _)
ScanKdkList(list, i, v, b, acc) ==
    IF i > Len(list) THEN acc
    ELSE LET kdk == list[i]
             kdk_version == ParseVersion(kdk.version)
         IN  IF kdk.build = b
             THEN ScanKdkList(list, i + 1, v, b,
                      [acc EXCEPT !.download_link = kdk.url])
             ELSE IF /\ acc.closest_match_download_link = NoLink
                     /\ ClosestQualifies(kdk_version, ParseVersion(v))
             THEN ScanKdkList(list, i + 1, v, b,
                      [acc EXCEPT !.closest_match_download_link = kdk.url,
                                  !.closest_version = kdk.version,
                                  !.closest_build = kdk.build])
             ELSE ScanKdkList(list, i + 1, v, b, acc)

\* ------------------------------------------------------------- AppleDB
Epoch1984 == 19840101     \* "1984-01-01"
EmptyReleased == 0        \* released == ""

Os(t, v, b, r) == [osType |-> t, version |-> v, build |-> b, released |-> r]

\* entries of the "ios" array of AppleDB
LegacyUniverse ==
    { Os("macOS", <<14, 3>>, B_23D60, 20240122),
      Os("macOS", <<14, 4>>, B_23E214, 20240307),
      Os("macOS", <<14, 4, -1>>, B_23E5180j, EmptyReleased),
      Os("macOS", <<14, 4, -1>>, B_23E5211a, 20240227),
      Os("macOS", <<14, 4, 1>>, B_23E224, 20240325),
      Os("macOS", <<-1>>, B_22F66, 20230518),
      Os("iOS", <<14, 4>>, B_23F79, 20240513) }

AppleDbResponses ==
    {Response(TRUE, 0, << >>), Response(FALSE, 503, << >>)}
        \cup {Response(FALSE, 200, l) : l \in SeqsUpTo(LegacyUniverse, MaxDb)}

\* the answers tried inside download_kdk: the macOS 14.3 and 14.4 entries
DownloadAppleDbResponses ==
    {r \in AppleDbResponses :
        \A i \in 1..Len(r.json) :
            /\ r.json[i].osType = "macOS"
            /\ r.json[i].build \in {B_23D60, B_23E214, B_23E5180j, B_23E5211a}}

\* line 67: the sort key of an AppleDB entry
LegacyKey(x) ==
    LET m == VersionPatternMatch(x.version)
    IN  ParseVersion(IF m # << >> THEN m ELSE <<0, 0, 0>>)
            \o <<IF x.released # EmptyReleased THEN x.released ELSE Epoch1984>>

NoMatch == <<NoLink, << >>, EmptyBuild>>

\* line 82: the test of one entry against the host version
LegacyQualifies_PreviousMinor(v, parsed_host_version) ==
    /\ VersionLeq(v, parsed_host_version)
    /\ Major(v) = Major(parsed_host_version)
    /\ (Minor(v) = Minor(parsed_host_version)
        \/ Minor(v) = Minor(parsed_host_version) - 1)

LegacyQualifies(v, parsed_host_version) ==
    /\ VersionLeq(v, parsed_host_version)
    /\ Major(v) = Major(parsed_host_version)
    /\ Minor(v) = Minor(parsed_host_version)

\* lines 79-81: the host's own build is skipped
SkipsBuild_Never(b, host_build) == FALSE

SkipsBuild(b, host_build) == b = host_build

\* lines 71-88: the scan of macos_builds, from entry i on
RECURSIVE FirstLegacyMatch(_, _, _, _)
FirstLegacyMatch(macos_builds, i, host_version, host_build) ==
    IF i > Len(macos_builds) THEN NoMatch
    ELSE LET build_info == macos_builds[i]
             raw_version == VersionPatternMatch(build_info.version)
         IN  IF build_info.osType # "macOS"
             THEN FirstLegacyMatch(macos_builds, i + 1, host_version, host_build)
             ELSE IF raw_version = << >>
             THEN FirstLegacyMatch(macos_builds, i + 1, host_version, host_build)
             ELSE IF SkipsBuild(build_info.build, host_build)
             THEN FirstLegacyMatch(macos_builds, i + 1, host_version, host_build)
             ELSE IF LegacyQualifies(ParseVersion(raw_version), ParseVersion(host_version))
             THEN <<generate_kdk_link(raw_version, build_info.build),
                    raw_version, build_info.build>>
             ELSE FirstLegacyMatch(macos_builds, i + 1, host_version, host_build)

\* line 64
MacosBuilds(ios) == SelectSeq(ios, LAMBDA x : x.osType = "macOS")

\* line 67
SortLegacy_Unsorted(macos_builds) == macos_builds

SortLegacy(macos_builds) ==
    Project2(SortPairsDesc([i \in 1..Len(macos_builds) |->
                               <<LegacyKey(macos_builds[i]), macos_builds[i]>>]))

\* get_closest_match_legacy(host_version, host_build): (link, version, build)
get_closest_match_legacy(host_version, host_build, resp) ==
    IF resp.raised THEN NoMatch
    ELSE IF resp.status_code # 200 THEN NoMatch
    ELSE FirstLegacyMatch(SortLegacy(MacosBuilds(resp.json)), 1, host_version, host_build)

\* ------------------------------------------------------------- portal
\* responses of the token endpoint
TokenResponses ==
    { [raised |-> TRUE, status_code |-> 0, invalid_path |-> FALSE],
      [raised |-> FALSE, status_code |-> 200, invalid_path |-> FALSE],
      [raised |-> FALSE, status_code |-> 400, invalid_path |-> TRUE],
      [raised |-> FALSE, status_code |-> 400, invalid_path |-> FALSE],
      [raised |-> FALSE, status_code |-> 503, invalid_path |-> FALSE] }

\* verify_apple_developer_portal(link): 0 available, 1 not available,
\* 2 portal down, 3 network error
verify_apple_developer_portal(network_ok, resp) ==
    IF network_ok = FALSE THEN 3
    ELSE IF resp.raised THEN 2
    ELSE IF resp.status_code >= 400
    THEN IF resp.status_code = 400 /\ resp.invalid_path THEN 1 ELSE 2
    ELSE 0

\* ------------------------------------------------------------- mirror
Asset(name, url) == [name |-> name, browser_download_url |-> url]
Release(tag, assets) == [tag_name |-> tag, assets |-> assets]

ReleaseUniverse ==
    { Release(B_23E214, <<Asset(<<"Kernel_Debug_Kit", ".dmg">>, MirrorUrl(B_23E214))>>),
      Release(B_23D60, <<Asset(<<"Kernel_Debug_Kit", ".pkg">>, NoLink),
                         Asset(<<"Kernel_Debug_Kit", ".dmg">>, MirrorUrl(B_23D60))>>),
      Release(B_23E214, <<Asset(<<"Kernel_Debug_Kit", ".pkg">>, NoLink)>>) }

MirrorResponses ==
    {Response(TRUE, 0, << >>), Response(FALSE, 403, << >>)}
        \cup {Response(FALSE, 200, l) : l \in SeqsUpTo(ReleaseUniverse, MaxReleases)}

\* lines 289-291: the first .dmg asset of a release, from asset j on
RECURSIVE FirstDmg(_, _)
FirstDmg(assets, j) ==
    IF j > Len(assets) THEN NoLink
    ELSE IF EndsWith(assets[j].name, <<".dmg">>) THEN assets[j].browser_download_url
    ELSE FirstDmg(assets, j + 1)

\* lines 286-294: the scan of the releases, from release i on
RECURSIVE ScanReleases(_, _, _)
ScanReleases(catalog, i, b) ==
    IF i > Len(catalog) THEN NoLink
    ELSE IF catalog[i].tag_name = b /\ FirstDmg(catalog[i].assets, 1) # NoLink
    THEN FirstDmg(catalog[i].assets, 1)
    ELSE ScanReleases(catalog, i + 1, b)

\* kdk_backup_site(build): requests.get is not guarded, its exception leaves the
\* method; otherwise the link, NoLink for None
kdk_backup_site(b, resp) ==
    IF resp.raised THEN [raised |-> TRUE, link |-> NoLink]
    ELSE IF resp.status_code # 200 THEN [raised |-> FALSE, link |-> NoLink]
    ELSE [raised |-> FALSE, link |-> ScanReleases(resp.json, 1, b)]

\* ------------------------------------------------------------- state
CorruptKexts == kexts_to_check \ {"apfs"}

\* entries /Library/Developer/KDKs can hold
CacheEntries ==
    { Dir(<<"KDK_14.4_", "23E214", ".kdk">>, kexts_to_check),
      Dir(<<"KDK_14.4_", "23E214", ".kdk">>, CorruptKexts),
      Dir(<<"KDK_14.3_", "23D60", ".kdk">>, kexts_to_check),
      Dir(<<"KDK_14.3_", "23D60", ".kdk">>, CorruptKexts),
      Dir(<<"Backup_", "23E214", ".kdk">>, CorruptKexts),
      File(<<"Archive_", "23D60", ".kdk">>) }

Caches == {c \in SUBSET CacheEntries : \A f, g \in c : f.name = g.name => f = g}

Targets ==
    { [version |-> <<14, 4>>, build |-> B_23E214],
      [version |-> <<14, 3>>, build |-> B_23D60] }

\* hosts of a direct get_closest_match_legacy call
LegacyHosts ==
    { [version |-> <<14, 4>>, build |-> B_23E214],
      [version |-> <<14, 4, 1>>, build |-> B_23E224],
      [version |-> <<14, 3>>, build |-> B_23D60] }

ExcludeBuilds == {EmptyBuild, B_23E214, B_23D60, B_22F66}

Triple(success, msg, b) == [success |-> success, msg |-> msg, build |-> b]
NoReturn == Triple(FALSE, "<none>", EmptyBuild)

NoDb == [requested |-> FALSE, resp |-> Response(TRUE, 0, << >>)]

Ev(op, link, b, exclude, removed, code) ==
    [op |-> op, link |-> link, build |-> b, exclude |-> exclude,
     removed |-> removed, code |-> code]

EvIsInstalled(b, before, o) ==
    Ev("is_kdk_installed", NoLink, b, << >>, Names(before) \ Names(o.cache),
       IF o.ret THEN 1 ELSE 0)
EvPrune(exclude, before, after) ==
    Ev("remove_unused_kdks", NoLink, EmptyBuild, exclude, Names(before) \ Names(after), 0)
EvRequest(op, link, b, code) == Ev(op, link, b, << >>, {}, code)

MsgNoMatch == "Could not find KDK for host, nor closest match"
MsgNoMatchOnServers == "Could not find KDK for host on Apple's servers, nor closest match"
MsgPortalDown == "Could not contact Apple download servers"
MsgNoBackup == "Could not contact Apple download servers and could not find a backup copy online"
MsgUnknown == "Unknown error"
MsgNoInternet == "Failed to connect to the internet"
MsgChecksum == "Kernel Debug Kit checksum verification failed, please try again."
MsgDownload == "Failed to download KDK"

\* two callers of download_kdk; the fields of one caller
Callers == {1, 2}
IdleCall ==
    [pc |-> "idle", build |-> EmptyBuild, closest_build |-> EmptyBuild,
     installed |-> FALSE, ret |-> NoReturn, held |-> FALSE, pruned |-> {}]

Init ==
    /\ kdk_root_exists \in BOOLEAN
    /\ cache \in (IF kdk_root_exists THEN Caches ELSE {{}})
    /\ should_nuke_kdks \in BOOLEAN
    /\ pc = "idle"
    /\ version = << >>
    /\ build = EmptyBuild
    /\ kdk_list = None_kdk_list
    /\ legacy_db = NoDb
    /\ download_link = NoLink
    /\ closest_match_download_link = NoLink
    /\ closest_version = << >>
    /\ closest_build = EmptyBuild
    /\ result = 0
    /\ outcome = "none"
    /\ ret = NoReturn
    /\ kdk_download_path = NoLink
    /\ installed_at_start = FALSE
    /\ cache0 = cache
    /\ log = << >>
    /\ calls = [p \in Callers |-> IdleCall]
    /\ serialized = TRUE

config == <<kdk_root_exists, should_nuke_kdks>>
args == <<version, build>>
candidates == <<download_link, closest_match_download_link, closest_version, closest_build>>
resolved == <<kdk_list, legacy_db>>
entry == <<installed_at_start, cache0>>

callers == <<calls, serialized>>

\* "return success, msg, build"
Return(success, msg, b) ==
    /\ ret' = Triple(success, msg, b)
    /\ outcome' = "returned"
    /\ pc' = "done"

Continue(next) ==
    /\ pc' = next
    /\ UNCHANGED <<ret, outcome>>

\* lines 131 and 168: "is_kdk_installed(...) is True"
IsTrue_Never(r) == FALSE

IsTrue(r) == r = TRUE

\* line 225: the build returned after a download
ReturnedBuild_Closest(detected_build, closest) == closest

ReturnedBuild(detected_build, closest) == detected_build

\* ------------------------------------------------------------- direct calls
\* remove_unused_kdks(exclude_builds), called on its own
RemoveUnusedKdksCall ==
    /\ pc = "idle"
    /\ \E exclude \in SeqsUpTo(ExcludeBuilds, MaxExclude) :
        LET after == RemoveUnusedKdks(cache, kdk_root_exists, should_nuke_kdks, exclude)
        IN  /\ cache' = after
            /\ log' = <<EvPrune(exclude, cache, after)>>
    /\ cache0' = cache
    /\ pc' = "called"
    /\ UNCHANGED <<config, callers, args, candidates, resolved, installed_at_start, result,
                   outcome, ret, kdk_download_path>>

\* remove_unused_kdks(exclude_builds), called again with the same list
RemoveUnusedKdksAgain ==
    /\ pc = "called"
    /\ Len(log) = 1
    /\ log[1].op = "remove_unused_kdks"
    /\ LET exclude == log[1].exclude
           after == RemoveUnusedKdks(cache, kdk_root_exists, should_nuke_kdks, exclude)
       IN  /\ cache' = after
           /\ log' = Append(log, EvPrune(exclude, cache, after))
    /\ cache0' = cache
    /\ pc' = "called_again"
    /\ UNCHANGED <<config, callers, args, candidates, resolved, installed_at_start, result,
                   outcome, ret, kdk_download_path>>

\* is_kdk_installed(build), called on its own
IsKdkInstalledCall ==
    /\ pc = "idle"
    /\ \E b \in ExcludeBuilds :
       \E o \in IsKdkInstalledOutcomes(cache, kdk_root_exists, b) :
            /\ cache' = o.cache
            /\ log' = <<EvIsInstalled(b, cache, o)>>
    /\ cache0' = cache
    /\ pc' = "called"
    /\ UNCHANGED <<config, callers, args, candidates, resolved, installed_at_start, result,
                   outcome, ret, kdk_download_path>>

\* get_closest_match_legacy(host_version, host_build), called on its own
GetClosestMatchLegacyCall ==
    /\ pc = "idle"
    /\ \E h \in LegacyHosts, db \in AppleDbResponses :
        LET m == get_closest_match_legacy(h.version, h.build, db)
        IN  /\ version' = h.version
            /\ build' = h.build
            /\ legacy_db' = [requested |-> TRUE, resp |-> db]
            /\ closest_match_download_link' = m[1]
            /\ closest_version' = m[2]
            /\ closest_build' = m[3]
            /\ log' = <<EvRequest("appledb", NoLink, h.build, 0)>>
    /\ pc' = "called"
    /\ UNCHANGED <<cache, config, callers, kdk_list, download_link, entry, result, outcome,
                   ret, kdk_download_path>>

\* ------------------------------------------------------------- download_kdk
\* lines 128-139: entry, the installed check of the requested build
DownloadKdk ==
    /\ pc = "idle"
    /\ \E t \in Targets :
       \E o \in IsKdkInstalledOutcomes(cache, kdk_root_exists, t.build) :
            /\ version' = t.version
            /\ build' = t.build
            /\ cache0' = cache
            /\ installed_at_start' = o.ret
            /\ IF IsTrue(o.ret)
               THEN LET after == RemoveUnusedKdks(o.cache, kdk_root_exists,
                                                  should_nuke_kdks, <<t.build>>)
                    IN  /\ cache' = after
                        /\ log' = <<EvIsInstalled(t.build, cache, o),
                                    EvPrune(<<t.build>>, o.cache, after)>>
                        /\ Return(TRUE, "", t.build)
               ELSE /\ cache' = o.cache
                    /\ log' = <<EvIsInstalled(t.build, cache, o)>>
                    /\ Continue("get_available_kdks")
    /\ kdk_list' = None_kdk_list
    /\ legacy_db' = NoDb
    /\ download_link' = NoLink
    /\ closest_match_download_link' = NoLink
    /\ closest_version' = << >>
    /\ closest_build' = EmptyBuild
    /\ result' = 0
    /\ UNCHANGED <<config, callers, kdk_download_path>>

\* lines 141-158: the KDK API list, or the generated link and AppleDB
ResolveCatalog ==
    /\ pc = "get_available_kdks"
    /\ \E resp \in KdkApiResponses :
        LET l == get_available_kdks(resp)
        IN  /\ kdk_list' = l
            /\ IF Truthy(l)
               THEN LET c == ScanKdkList(l.list, 1, version, build,
                                 Candidates(NoLink, NoLink, << >>, EmptyBuild))
                    IN  /\ download_link' = c.download_link
                        /\ closest_match_download_link' = c.closest_match_download_link
                        /\ closest_version' = c.closest_version
                        /\ closest_build' = c.closest_build
                        /\ legacy_db' = legacy_db
                        /\ log' = Append(log, EvRequest("kdk_api", NoLink, EmptyBuild, 0))
               ELSE \E db \in DownloadAppleDbResponses :
                    LET m == get_closest_match_legacy(version, build, db)
                    IN  /\ download_link' = generate_kdk_link(version, build)
                        /\ closest_match_download_link' = m[1]
                        /\ closest_version' = m[2]
                        /\ closest_build' = m[3]
                        /\ legacy_db' = [requested |-> TRUE, resp |-> db]
                        /\ log' = log \o <<EvRequest("kdk_api", NoLink, EmptyBuild, 0),
                                           EvRequest("appledb", NoLink, build, 0)>>
    /\ Continue("verify_primary")
    /\ UNCHANGED <<cache, config, callers, args, entry, result, kdk_download_path>>

\* the requests of one verify_apple_developer_portal(link) returning code
ProbeLog(link, network_ok, code) ==
    <<EvRequest("verify_network_connection", link, EmptyBuild, IF network_ok THEN 1 ELSE 0)>>
      \o (IF network_ok THEN <<EvRequest("token", link, EmptyBuild, code)>> ELSE << >>)
      \o <<EvRequest("verify_apple_developer_portal", link, EmptyBuild, code)>>

\* lines 162-166, 199-200, 206-209: the probe of download_link and its dispatch
VerifyPrimary ==
    /\ pc = "verify_primary"
    /\ IF download_link # NoLink
       THEN \E network_ok \in BOOLEAN, resp \in TokenResponses :
            LET code == verify_apple_developer_portal(network_ok, resp)
            IN  /\ result' = code
                /\ log' = log \o ProbeLog(download_link, network_ok, code)
       ELSE /\ result' = 1
            /\ log' = log
    /\ CASE result' = 0 -> Continue("transfer")
         [] result' = 1 -> Continue("closest_installed")
         [] result' = 2 -> Continue("backup_site_build")
         [] OTHER -> Return(FALSE, MsgNoInternet, EmptyBuild)
    /\ UNCHANGED <<cache, config, callers, args, candidates, resolved, entry, kdk_download_path>>

\* lines 168-178: the installed check of the closest build
ClosestInstalled ==
    /\ pc = "closest_installed"
    /\ \E o \in IsKdkInstalledOutcomes(cache, kdk_root_exists, closest_build) :
        IF IsTrue(o.ret)
        THEN LET exclude == <<build, closest_build>>
                 after == RemoveUnusedKdks(o.cache, kdk_root_exists,
                                           should_nuke_kdks, exclude)
             IN  /\ cache' = after
                 /\ log' = log \o <<EvIsInstalled(closest_build, cache, o),
                                    EvPrune(exclude, o.cache, after)>>
                 /\ Return(TRUE, "", closest_build)
        ELSE /\ cache' = o.cache
             /\ log' = Append(log, EvIsInstalled(closest_build, cache, o))
             /\ IF closest_match_download_link = NoLink
                THEN Return(FALSE, MsgNoMatch, EmptyBuild)
                ELSE Continue("verify_closest")
    /\ UNCHANGED <<config, callers, args, candidates, resolved, entry, result, kdk_download_path>>

VerifyClosest_TransferUnavailable ==
    /\ pc = "verify_closest"
    /\ \E network_ok \in BOOLEAN, resp \in TokenResponses :
        LET code == verify_apple_developer_portal(network_ok, resp)
        IN  /\ result' = code
            /\ log' = log \o ProbeLog(closest_match_download_link, network_ok, code)
    /\ download_link' = IF result' \in {0, 1} THEN closest_match_download_link
                        ELSE download_link
    /\ CASE result' \in {0, 1} -> Continue("transfer")
         [] result' = 2 -> Continue("backup_site_closest")
         [] OTHER -> Return(FALSE, MsgUnknown, EmptyBuild)
    /\ UNCHANGED <<cache, config, callers, args, closest_match_download_link, closest_version,
                   closest_build, resolved, entry, kdk_download_path>>

\* lines 179-198: the probe of the closest match and its dispatch
VerifyClosest ==
    /\ pc = "verify_closest"
    /\ \E network_ok \in BOOLEAN, resp \in TokenResponses :
        LET code == verify_apple_developer_portal(network_ok, resp)
        IN  /\ result' = code
            /\ log' = log \o ProbeLog(closest_match_download_link, network_ok, code)
    /\ download_link' = IF result' = 0 THEN closest_match_download_link ELSE download_link
    /\ CASE result' = 0 -> Continue("transfer")
         [] result' = 1 -> Return(FALSE, MsgNoMatchOnServers, EmptyBuild)
         [] result' = 2 -> Continue("backup_site_closest")
         [] OTHER -> Return(FALSE, MsgUnknown, EmptyBuild)
    /\ UNCHANGED <<cache, config, callers, args, closest_match_download_link, closest_version,
                   closest_build, resolved, entry, kdk_download_path>>

\* lines 189-194 and 200-205: the mirror lookup after a portal failure
BackupSite ==
    /\ pc \in {"backup_site_build", "backup_site_closest"}
    /\ LET b == IF pc = "backup_site_build" THEN build ELSE closest_build
       IN  \E resp \in MirrorResponses :
           LET r == kdk_backup_site(b, resp)
           IN  /\ log' = Append(log, EvRequest("kdk_backup_site", r.link, b, 0))
               /\ IF r.raised
                  THEN /\ outcome' = "raised"
                       /\ pc' = "done"
                       /\ UNCHANGED <<ret, download_link>>
                  ELSE /\ download_link' = r.link
                       /\ IF r.link = NoLink
                          THEN Return(FALSE, MsgNoBackup, EmptyBuild)
                          ELSE Continue("transfer")
    /\ UNCHANGED <<cache, config, callers, args, closest_match_download_link, closest_version,
                   closest_build, resolved, entry, result, kdk_download_path>>

\* lines 211-214 and 226-228: the transfer; result is 1 for a truthy value
Transfer ==
    /\ pc = "transfer"
    /\ \E ok \in BOOLEAN :
        /\ log' = Append(log, EvRequest(IF ContainsGithub(download_link)
                                        THEN "download_file"
                                        ELSE "download_apple_developer_portal",
                                        download_link, EmptyBuild, IF ok THEN 1 ELSE 0))
        /\ result' = IF ok THEN 1 ELSE 0
        /\ IF ok
           THEN /\ kdk_download_path' = download_link
                /\ Continue("hdiutil_verify")
           ELSE /\ kdk_download_path' = kdk_download_path
                /\ Return(FALSE, MsgDownload, EmptyBuild)
    /\ UNCHANGED <<cache, config, callers, args, candidates, resolved, entry>>

VerifyAndPrune_PruneFirst ==
    /\ pc = "hdiutil_verify"
    /\ \E returncode \in {0, 1} :
        LET exclude == <<build, closest_build>>
            after == RemoveUnusedKdks(cache, kdk_root_exists, should_nuke_kdks, exclude)
        IN  /\ result' = returncode
            /\ cache' = after
            /\ log' = log \o <<EvPrune(exclude, cache, after),
                               EvRequest("hdiutil_verify", kdk_download_path,
                                         EmptyBuild, returncode)>>
            /\ IF returncode # 0
               THEN Return(FALSE, MsgChecksum, EmptyBuild)
               ELSE Return(TRUE, "", ReturnedBuild(build, closest_build))
    /\ UNCHANGED <<config, callers, args, candidates, resolved, entry, kdk_download_path>>

\* lines 216-225: hdiutil verify, then the prune and the return
VerifyAndPrune ==
    /\ pc = "hdiutil_verify"
    /\ \E returncode \in {0, 1} :
        /\ result' = returncode
        /\ IF returncode # 0
           THEN /\ cache' = cache
                /\ log' = Append(log, EvRequest("hdiutil_verify", kdk_download_path,
                                                EmptyBuild, returncode))
                /\ Return(FALSE, MsgChecksum, EmptyBuild)
           ELSE LET exclude == <<build, closest_build>>
                    after == RemoveUnusedKdks(cache, kdk_root_exists,
                                              should_nuke_kdks, exclude)
                IN  /\ cache' = after
                    /\ log' = log \o <<EvRequest("hdiutil_verify", kdk_download_path,
                                                 EmptyBuild, returncode),
                                       EvPrune(exclude, cache, after)>>
                    /\ Return(TRUE, "", ReturnedBuild(build, closest_build))
    /\ UNCHANGED <<config, callers, args, candidates, resolved, entry, kdk_download_path>>

Next ==
    \/ RemoveUnusedKdksCall
    \/ RemoveUnusedKdksAgain
    \/ IsKdkInstalledCall
    \/ GetClosestMatchLegacyCall
    \/ DownloadKdk
    \/ ResolveCatalog
    \/ VerifyPrimary
    \/ ClosestInstalled
    \/ VerifyClosest
    \/ BackupSite
    \/ Transfer
    \/ VerifyAndPrune

Spec == Init /\ [][Next]_vars

\* ------------------------------------------------------------- two callers
\* Two calls of download_kdk on one cache root, interleaved at their cache
\* operations (is_kdk_installed, remove_unused_kdks). The requests between the
\* cache operations are those of Spec; here they only choose how a call goes on.
single == <<pc, version, build, kdk_list, legacy_db, download_link,
            closest_match_download_link, closest_version, closest_build, result,
            outcome, ret, kdk_download_path, installed_at_start, cache0, log>>

InitConcurrent ==
    /\ kdk_root_exists \in BOOLEAN
    /\ cache \in (IF kdk_root_exists THEN Caches ELSE {{}})
    /\ should_nuke_kdks \in BOOLEAN
    /\ pc = "idle"
    /\ version = << >>
    /\ build = EmptyBuild
    /\ kdk_list = None_kdk_list
    /\ legacy_db = NoDb
    /\ download_link = NoLink
    /\ closest_match_download_link = NoLink
    /\ closest_version = << >>
    /\ closest_build = EmptyBuild
    /\ result = 0
    /\ outcome = "none"
    /\ ret = NoReturn
    /\ kdk_download_path = NoLink
    /\ installed_at_start = FALSE
    /\ cache0 = cache
    /\ log = << >>
    /\ calls = [p \in Callers |-> IdleCall]
    /\ serialized \in BOOLEAN

\* with serialized callers a call takes a step only while no other call is
\* between its entry and its return
MayStep(p) ==
    serialized => \A q \in Callers \ {p} : calls[q].pc \in {"idle", "done"}

\* a directory of the build with all four kexts is in the listing
HoldsKit(c, b) ==
    \E f \in c : /\ f.is_dir
                 /\ EndsWith(f.name, KdkSuffix(b))
                 /\ kexts_to_check \subseteq f.kexts

\* closest builds the KDK API or AppleDB can give for a requested build
ClosestBuilds(b) == {EmptyBuild} \cup ({B_23E214, B_23D60, B_23E5180j} \ {b})

CallReturn(c, success, b, after) ==
    [c EXCEPT !.pc = "done",
              !.ret = Triple(success, "", b),
              !.held = HoldsKit(after, b),
              !.pruned = Names(cache) \ Names(after)]

\* line 131: the installed check of the requested build
CallEntry(p) ==
    /\ calls[p].pc = "idle"
    /\ MayStep(p)
    /\ \E t \in Targets :
       \E o \in IsKdkInstalledOutcomes(cache, kdk_root_exists, t.build) :
            /\ cache' = o.cache
            /\ calls' = [calls EXCEPT ![p] =
                            [@ EXCEPT !.build = t.build,
                                      !.installed = o.ret,
                                      !.pc = IF IsTrue(o.ret) THEN "prune_installed"
                                             ELSE "resolve"]]
    /\ UNCHANGED <<config, serialized, single>>

\* lines 133-134 called with the list [closest_build] of the caller
CallPruneInstalled_WrongExclude(p) ==
    /\ calls[p].pc = "prune_installed"
    /\ MayStep(p)
    /\ LET after == RemoveUnusedKdks(cache, kdk_root_exists, should_nuke_kdks,
                                     <<calls[p].closest_build>>)
       IN  /\ cache' = after
           /\ calls' = [calls EXCEPT ![p] =
                            CallReturn(@, TRUE, calls[p].build, after)]
    /\ UNCHANGED <<config, serialized, single>>

\* lines 133-134: the prune and the return of an installed build
CallPruneInstalled(p) ==
    /\ calls[p].pc = "prune_installed"
    /\ MayStep(p)
    /\ LET after == RemoveUnusedKdks(cache, kdk_root_exists, should_nuke_kdks,
                                     <<calls[p].build>>)
       IN  /\ cache' = after
           /\ calls' = [calls EXCEPT ![p] =
                            CallReturn(@, TRUE, calls[p].build, after)]
    /\ UNCHANGED <<config, serialized, single>>

\* lines 136-166: the requests that choose the closest build and the branch
CallResolve(p) ==
    /\ calls[p].pc = "resolve"
    /\ MayStep(p)
    /\ \E cb \in ClosestBuilds(calls[p].build),
          next \in {"closest_installed", "download", "done"} :
            calls' = [calls EXCEPT ![p] = [@ EXCEPT !.closest_build = cb, !.pc = next]]
    /\ UNCHANGED <<cache, config, serialized, single>>

\* lines 168-171: the installed check of the closest build, its prune and return
CallClosestInstalled(p) ==
    /\ calls[p].pc = "closest_installed"
    /\ MayStep(p)
    /\ \E o \in IsKdkInstalledOutcomes(cache, kdk_root_exists, calls[p].closest_build) :
        IF IsTrue(o.ret)
        THEN LET after == RemoveUnusedKdks(o.cache, kdk_root_exists, should_nuke_kdks,
                                           <<calls[p].build, calls[p].closest_build>>)
             IN  /\ cache' = after
                 /\ calls' = [calls EXCEPT ![p] =
                                  CallReturn(@, TRUE, calls[p].closest_build, after)]
        ELSE /\ cache' = o.cache
             /\ \E next \in {"download", "done"} :
                    calls' = [calls EXCEPT ![p] = [@ EXCEPT !.pc = next]]
    /\ UNCHANGED <<config, serialized, single>>

\* lines 211-225: the transfer, hdiutil verify, and the prune of line 224
CallDownload(p) ==
    /\ calls[p].pc = "download"
    /\ MayStep(p)
    /\ \E ok \in BOOLEAN :
        IF ok
        THEN LET after == RemoveUnusedKdks(cache, kdk_root_exists, should_nuke_kdks,
                                           <<calls[p].build, calls[p].closest_build>>)
             IN  /\ cache' = after
                 /\ calls' = [calls EXCEPT ![p] =
                                  CallReturn(@, TRUE, calls[p].build, after)]
        ELSE /\ cache' = cache
             /\ calls' = [calls EXCEPT ![p] = [@ EXCEPT !.pc = "done"]]
    /\ UNCHANGED <<config, serialized, single>>

NextConcurrent ==
    \/ \E p \in Callers : CallEntry(p)
    \/ \E p \in Callers : CallPruneInstalled(p)
    \/ \E p \in Callers : CallResolve(p)
    \/ \E p \in Callers : CallClosestInstalled(p)
    \/ \E p \in Callers : CallDownload(p)

SpecConcurrent == InitConcurrent /\ [][NextConcurrent]_vars

\* ------------------------------------------------------------- observations
Idx(ops) == {i \in 1..Len(log) : log[i].op \in ops}
ProbeIdx == Idx({"verify_apple_developer_portal"})
NetCheckIdx == Idx({"verify_network_connection"})
TransferIdx == Idx({"download_file", "download_apple_developer_portal"})
PruneIdx == Idx({"remove_unused_kdks"})
NetworkIdx == Idx({"kdk_api", "appledb", "verify_network_connection", "token",
                   "kdk_backup_site", "download_file",
                   "download_apple_developer_portal"})
First(S) == CHOOSE x \in S : \A y \in S : x <= y

InCall == pc \notin {"idle", "called", "called_again"}
Returned == pc = "done" /\ outcome = "returned"

\* the call took the "result == 1" branch of line 165
PrimaryUnavailable == \E i \in Idx({"is_kdk_installed"}) : i > 1

\* ------------------------------------------------------------- C1
\* C1: every call of download_kdk ends by returning a triple, whatever the
\* requests do, and a failing triple carries the empty build.
C1_AlwaysReturnsTriple ==
    pc = "done" =>
        /\ outcome = "returned"
        /\ (~ret.success => ret.build = EmptyBuild)

\* ------------------------------------------------------------- C2
\* C2: when is_kdk_installed(build) is true at entry, the call returns
\* (True, "", build) after one prune that excludes [build], and the call makes
\* no request to the KDK API, AppleDB, the portal or the mirror and no transfer.
C2_InstalledShortCircuit ==
    (pc = "done" /\ installed_at_start) =>
        /\ Returned
        /\ ret = Triple(TRUE, "", build)
        /\ NetworkIdx = {}
        /\ Len(log) = 2
        /\ log[1].op = "is_kdk_installed" /\ log[1].removed = {}
        /\ log[2].op = "remove_unused_kdks" /\ log[2].exclude = <<build>>
        /\ \A f \in cache0 : f.name \notin log[2].removed => f \in cache

C2_Witness ==
    /\ pc = "done" /\ installed_at_start
    /\ log[2].removed # {}
    /\ \E f \in cache : EndsWith(f.name, KdkSuffix(build))

\* ------------------------------------------------------------- C3
ExactUrls ==
    {kdk_list.list[i].url : i \in {j \in 1..Len(kdk_list.list) :
                                      kdk_list.list[j].build = build}}

\* C3: when the fetched list holds a record of the requested build, the link probed
\* first is that record's url, and when that probe returns 0 the transfer is
\* started with that url and no other, whatever else the list holds.
C3_ExactMatchPrecedence ==
    (/\ InCall
     /\ pc \notin {"get_available_kdks", "verify_primary"}
     /\ ~installed_at_start
     /\ Truthy(kdk_list)
     /\ ExactUrls # {}) =>
        /\ ProbeIdx # {}
        /\ LET p == log[First(ProbeIdx)]
           IN  /\ p.link \in ExactUrls
               /\ p.code = 0 =>
                    /\ pc \in {"transfer", "hdiutil_verify", "done"}
                    /\ \A j \in TransferIdx : log[j].link = p.link
                    /\ pc = "transfer" => download_link = p.link
                    /\ pc # "transfer" => TransferIdx # {}

C3_Witness ==
    /\ pc = "done" /\ ret.success
    /\ Truthy(kdk_list)
    /\ closest_match_download_link # NoLink
    /\ closest_match_download_link \notin ExactUrls
    /\ \E j \in TransferIdx : log[j].link \in ExactUrls

\* ------------------------------------------------------------- C4
\* C4: when the primary outcome is "not available" and there is no closest match,
\* the call fails with "Could not find KDK for host, nor closest match" and the
\* empty build, whatever the cache holds.
C4_NoClosestFails ==
    (Returned /\ PrimaryUnavailable /\ closest_match_download_link = NoLink) =>
        ret = Triple(FALSE, MsgNoMatch, EmptyBuild)

\* ------------------------------------------------------------- C5
\* the first probe of the call found the network down
FirstProbeNetworkDown ==
    /\ NetCheckIdx # {}
    /\ log[First(NetCheckIdx)].code = 0

\* C5: when the network check fails on the first probe of the call, primary or
\* closest, the result is (False, "Failed to connect to the internet", "") and no
\* token request and no mirror request is made.
C5_NetworkDownFirstProbe ==
    (Returned /\ FirstProbeNetworkDown) =>
        /\ ret = Triple(FALSE, MsgNoInternet, EmptyBuild)
        /\ Idx({"token", "kdk_backup_site"}) = {}

\* ------------------------------------------------------------- C6
Protected(name, exclude) ==
    \E k \in 1..Len(exclude) :
        /\ Len(exclude[k]) > 0
        /\ Len(name) >= Len(exclude[k]) + 1
        /\ name[Len(name)] = ".kdk"
        /\ \A m \in 1..Len(exclude[k]) :
              name[Len(name) - Len(exclude[k]) - 1 + m] = exclude[k][m]

\* C6: a step that prunes removes no entry whose name ends with the suffix of a
\* non-empty build of its exclusion list; so the kits of the requested and of the
\* closest build that are in the cache before a prune of download_kdk are in it
\* after.
C6_PruneKeepsKeepSet ==
    [][\A i \in (Len(log) + 1)..Len(log') :
          log'[i].op = "remove_unused_kdks" =>
              /\ \A f \in cache :
                    Protected(f.name, log'[i].exclude) =>
                        f \in cache' /\ f.name \notin log'[i].removed
              /\ pc' = "done" =>
                    /\ log'[i].exclude[1] = build'
                    /\ Len(log'[i].exclude) = 2 => log'[i].exclude[2] = closest_build'
                    /\ \A f \in cache :
                          (\/ Protected(f.name, <<build'>>)
                           \/ pc = "closest_installed" /\ Protected(f.name, <<closest_build>>)
                           \/ pc = "hdiutil_verify" /\ Protected(f.name, <<closest_build>>))
                              => f \in cache']_vars

C6_Witness ==
    /\ PruneIdx # {}
    /\ LET e == log[First(PruneIdx)]
       IN  /\ e.removed # {}
           /\ \E f \in cache : Protected(f.name, e.exclude)

\* ------------------------------------------------------------- C7
\* C7: remove_unused_kdks deletes nothing when its exclusion list is empty, when
\* should_nuke_kdks is off, or when /Library/Developer/KDKs does not exist.
C7_PruneNoOpGuards ==
    \A i \in PruneIdx :
        (log[i].exclude = << >> \/ ~should_nuke_kdks \/ ~kdk_root_exists) =>
            /\ log[i].removed = {}
            /\ pc = "called" => cache = cache0

C7_Witness ==
    /\ pc = "called"
    /\ PruneIdx # {}
    /\ log[1].exclude = << >>
    /\ should_nuke_kdks /\ kdk_root_exists
    /\ \E f \in cache : f.is_dir /\ EndsWith(f.name, <<".kdk">>)

\* ------------------------------------------------------------- C8
\* the call found the closest build installed (line 168) and stopped there
ClosestFoundInstalled ==
    \E i \in Idx({"is_kdk_installed"}) : i > 1 /\ log[i].code = 1

\* the call succeeded through the closest match or through a mirror copy
ResolvedViaClosestOrMirror ==
    /\ Returned /\ ret.success /\ ~installed_at_start
    /\ closest_build # EmptyBuild
    /\ \/ ClosestFoundInstalled
       \/ \E j \in TransferIdx :
             log[j].link = closest_match_download_link \/ ContainsGithub(log[j].link)

\* C8 as stated: a success through the closest match or a mirror copy returns the
\* requested build.
C8_RequestedBuildReturned ==
    ResolvedViaClosestOrMirror => ret.build = build

\* C8 amended: a success that follows a transfer (of the primary, the closest or a
\* mirror link) returns the requested build; a success of line 171, the closest
\* build found installed, returns closest_build.
C8_RequestedBuildAfterTransfer ==
    (Returned /\ ret.success /\ ~installed_at_start) =>
        /\ TransferIdx # {} => ret.build = build
        /\ TransferIdx = {} => ClosestFoundInstalled /\ ret.build = closest_build

C8_Witness ==
    /\ Returned /\ ret.success
    /\ closest_build # EmptyBuild /\ closest_build # build
    /\ \E j \in TransferIdx : log[j].link = closest_match_download_link
    /\ ret.build = build

\* ------------------------------------------------------------- C9
Os_14_3 == Os("macOS", <<14, 3>>, B_23D60, 20240122)

InSeq(x, q) == \E i \in 1..Len(q) : q[i] = x

\* target 14.4, the KDK API request failed, AppleDB answered with the 14.3 entry
\* of build 23D60, and the generated link probed "not available"
LegacyScenario ==
    /\ InCall /\ pc \notin {"get_available_kdks", "verify_primary"}
    /\ version = <<14, 4>>
    /\ ~kdk_list.fetched
    /\ legacy_db.requested
    /\ ~legacy_db.resp.raised /\ legacy_db.resp.status_code = 200
    /\ InSeq(Os_14_3, legacy_db.resp.json)
    /\ ProbeIdx # {}
    /\ log[First(ProbeIdx)].link = generate_kdk_link(version, build)
    /\ log[First(ProbeIdx)].code = 1

\* the probe of the closest match returned 0
ClosestProbedAvailable ==
    \E i \in ProbeIdx : /\ i > First(ProbeIdx)
                        /\ log[i].link = closest_match_download_link
                        /\ log[i].code = 0

\* C9 as stated: in the scenario the closest match is the 23D60 entry.
C9_PreviousMinorIsClosest ==
    LegacyScenario =>
        /\ closest_build = B_23D60
        /\ closest_match_download_link = generate_kdk_link(<<14, 3>>, B_23D60)

\* C9 amended: in the scenario the 14.3 entry is never the closest match and its
\* artifact is never transferred; the closest match, when there is one, is an
\* entry whose version starts with 14.4 and whose build is not the requested one;
\* when its probe returns 0 the transfer uses its generated link and a returned
\* success is (True, "", requested build).
C9_SameMinorIsClosest ==
    LegacyScenario =>
        /\ closest_build # B_23D60
        /\ \A j \in TransferIdx : log[j].link.build # B_23D60
        /\ closest_match_download_link # NoLink =>
              /\ closest_build # build
              /\ closest_version = <<14, 4>>
              /\ closest_match_download_link = generate_kdk_link(<<14, 4>>, closest_build)
              /\ \E i \in 1..Len(legacy_db.resp.json) :
                    /\ legacy_db.resp.json[i].build = closest_build
                    /\ legacy_db.resp.json[i].osType = "macOS"
                    /\ SubSeq(legacy_db.resp.json[i].version, 1, 2) = <<14, 4>>
        /\ ClosestProbedAvailable =>
              /\ pc \in {"transfer", "hdiutil_verify", "done"}
              /\ \A j \in TransferIdx : log[j].link = closest_match_download_link
              /\ pc = "transfer" => download_link = closest_match_download_link
              /\ (Returned /\ ret.success) =>
                    TransferIdx # {} /\ ret = Triple(TRUE, "", build)

C9_Witness ==
    /\ LegacyScenario
    /\ ClosestProbedAvailable
    /\ Returned /\ ret = Triple(TRUE, "", build)
    /\ \E j \in TransferIdx : log[j].link = generate_kdk_link(<<14, 4>>, B_23E5180j)

\* ------------------------------------------------------------- C10
\* the version of an AppleDB entry as <<major, minor, patch>>, << >> when the
\* string does not start with two numbers
LeadingVersion(e) ==
    IF Len(e.version) < 2 \/ e.version[1] < 0 \/ e.version[2] < 0 THEN << >>
    ELSE <<e.version[1], e.version[2],
           IF Len(e.version) >= 3 /\ e.version[3] >= 0 THEN e.version[3] ELSE 0>>

\* the entries of the answer that the claim lets the matcher return
LegacyEligible ==
    {i \in 1..Len(legacy_db.resp.json) :
        LET e == legacy_db.resp.json[i]
            v == LeadingVersion(e)
            h == <<version[1], version[2], IF Len(version) >= 3 THEN version[3] ELSE 0>>
        IN  /\ e.osType = "macOS"
            /\ v # << >>
            /\ e.build # build
            /\ v[1] = h[1] /\ v[2] = h[2] /\ v[3] <= h[3]}

\* (version, release date) of an eligible entry; no date counts as 1984-01-01
Rank(i) ==
    LET e == legacy_db.resp.json[i]
    IN  <<LeadingVersion(e)[3], IF e.released = EmptyReleased THEN Epoch1984 ELSE e.released>>

C11_PruneIdempotent ==
    pc = "called_again" =>
        /\ cache = cache0
        /\ log[2].exclude = log[1].exclude
        /\ log[2].removed = {}

\* the first call removed a folder and kept another entry
C11_Witness ==
    /\ pc = "called_again"
    /\ log[1].removed # {}
    /\ cache # {}

\* ------------------------------------------------------------- C12
\* the link was probed before position j and the probe returned 0
ProbedAvailable(link, j) ==
    \E i \in ProbeIdx : i < j /\ log[i].link = link /\ log[i].code = 0

\* the link was returned by kdk_backup_site before position j
FromBackupSite(link, j) ==
    \E i \in Idx({"kdk_backup_site"}) : i < j /\ log[i].link = link /\ link # NoLink

\* C12: within one call of download_kdk a transfer is started only with a link
\* whose probe returned 0 earlier in the call or with a link kdk_backup_site
\* returned; a link whose probe returned 1, 2 or 3 is never transferred.
C12_ProbeBeforeTransfer ==
    InCall =>
        /\ \A j \in TransferIdx :
            ProbedAvailable(log[j].link, j) \/ FromBackupSite(log[j].link, j)
        /\ pc = "transfer" =>
            \/ ProbedAvailable(download_link, Len(log) + 1)
            \/ FromBackupSite(download_link, Len(log) + 1)
        /\ \A i \in ProbeIdx : log[i].code # 0 =>
            /\ \A j \in TransferIdx : log[j].link # log[i].link
            /\ pc = "transfer" => download_link # log[i].link

\* the primary probe returned 1, the closest match was probed and transferred
C12_Witness ==
    /\ InCall
    /\ \E i \in ProbeIdx, j \in TransferIdx :
        /\ log[i].code = 1
        /\ i < j
        /\ log[j].link = closest_match_download_link
        /\ ProbedAvailable(log[j].link, j)

\* ------------------------------------------------------------- C13
BackupSiteIdx == Idx({"kdk_backup_site"})

\* the lookup at position i follows a probe that returned 2, and asks for the
\* build that probe stood for
AfterPortalDown(i) ==
    /\ i - 1 \in ProbeIdx
    /\ log[i - 1].code = 2
    /\ IF i - 1 = First(ProbeIdx) /\ ~PrimaryUnavailable
       THEN log[i].build = build
       ELSE /\ log[i - 1].link = closest_match_download_link
            /\ log[i].build = closest_build

\* C13: kdk_backup_site is asked only after a probe returned 2, for the build
\* of that probe; an answer without a link ends the call with the "no backup
\* copy" triple, any other lookup is followed by the transfer of the mirror link.
C13_MirrorRouting ==
    InCall =>
        \A i \in BackupSiteIdx :
            /\ AfterPortalDown(i)
            /\ IF log[i].link = NoLink
               THEN Returned /\ ret = Triple(FALSE, MsgNoBackup, EmptyBuild)
               ELSE \/ pc = "transfer" /\ download_link = log[i].link
                    \/ i + 1 \in TransferIdx /\ log[i + 1].link = log[i].link

\* ------------------------------------------------------------- C14
ListUrls == {kdk_list.list[k].url : k \in 1..Len(kdk_list.list)}

\* C14: AppleDB and the generated link are used only when get_available_kdks
\* returned None; after a fetched list, the empty list included, the call makes
\* no AppleDB request and probes no link that is not an entry of the list.
C14_LegacyOnlyAfterFetchFailed ==
    (InCall /\ pc # "get_available_kdks" /\ kdk_list.fetched) =>
        /\ Idx({"appledb"}) = {}
        /\ ~legacy_db.requested
        /\ \A i \in ProbeIdx : log[i].link \in ListUrls
        /\ pc = "verify_primary" => download_link \in ListUrls \cup {NoLink}

\* ------------------------------------------------------------- C15
\* positions of the fetched list whose record is at most the requested version,
\* of its major, and of its minor or the minor before
QualifyingIdx ==
    {k \in 1..Len(kdk_list.list) :
        LET kv == ParseVersion(kdk_list.list[k].version)
            tv == ParseVersion(version)
        IN  /\ VersionLeq(kv, tv)
            /\ kv[1] = tv[1]
            /\ kv[2] \in {tv[2], tv[2] - 1}}

\* the same positions without the records of the requested build
QualifyingOtherIdx == {k \in QualifyingIdx : kdk_list.list[k].build # build}

ClosestIs(k) ==
    /\ closest_match_download_link = kdk_list.list[k].url
    /\ closest_version = kdk_list.list[k].version
    /\ closest_build = kdk_list.list[k].build

CatalogScanned == InCall /\ pc # "get_available_kdks" /\ kdk_list.fetched

\* C15 as stated: after a fetched list the closest match is the first qualifying
\* record in sort order, the record of the requested build included.
C15_ClosestIsFirstQualifying ==
    (CatalogScanned /\ QualifyingIdx # {}) => ClosestIs(First(QualifyingIdx))

\* C15: after a fetched list the closest match is the first record in sort order,
\* among the records of a build other than the requested one, that qualifies;
\* later qualifying records never replace it, a record of the requested build is
\* never the closest match, and a non-empty list without such a record gives no
\* closest match.
C15_ClosestIsFirstQualifyingOther ==
    CatalogScanned =>
        /\ QualifyingOtherIdx # {} => ClosestIs(First(QualifyingOtherIdx))
        /\ (QualifyingOtherIdx = {} /\ kdk_list.list # << >>) =>
            /\ closest_match_download_link = NoLink
            /\ closest_build = EmptyBuild
        /\ kdk_list.list # << >> => closest_build # build

\* the requested build's record is the first qualifying one and is passed over
C15_Witness ==
    /\ CatalogScanned
    /\ QualifyingIdx # {}
    /\ kdk_list.list[First(QualifyingIdx)].build = build
    /\ QualifyingOtherIdx # {}
    /\ ClosestIs(First(QualifyingOtherIdx))

\* ------------------------------------------------------------- C16
PassesValidation(f) == f.is_dir /\ kexts_to_check \subseteq f.kexts

\* C16: a call of download_kdk that returns success = False has not called
\* remove_unused_kdks and has removed no cache entry that passes the kext
\* validation; after a failed hdiutil verify the downloaded image is still at
\* kdk_download_path.
C16_FailureNeverPrunes ==
    (Returned /\ ~ret.success) =>
        /\ PruneIdx = {}
        /\ cache \subseteq cache0
        /\ \A f \in cache0 \ cache : ~PassesValidation(f)
        /\ ret.msg = MsgChecksum =>
            /\ kdk_download_path # NoLink
            /\ TransferIdx # {}
            /\ \A j \in TransferIdx : log[j].link = kdk_download_path

\* the verify failed while pruning was enabled and the cache held a valid kit
\* that the prune of line 224 would have removed
C16_Witness ==
    /\ Returned
    /\ ret = Triple(FALSE, MsgChecksum, EmptyBuild)
    /\ should_nuke_kdks
    /\ kdk_root_exists
    /\ \E f \in cache :
        /\ PassesValidation(f)
        /\ EndsWith(f.name, <<".kdk">>)
        /\ ~Protected(f.name, <<build, closest_build>>)

\* ------------------------------------------------------------- C17
\* the is_kdk_installed events a step appends to the log
NewInstalledIdx == {i \in (Len(log) + 1)..Len(log') : log'[i].op = "is_kdk_installed"}

\* C17: is_kdk_installed(build) removes at most one entry, a directory whose
\* name ends with build + ".kdk" and that lacks one of the four kexts, and then
\* returns False; it returns True only when a directory with that suffix and
\* all four kexts is in the cache, and then removes nothing; a call that is not
\* followed by a prune leaves every other entry in place.
C17_IsInstalledStep ==
    \A i \in NewInstalledIdx :
        LET e == log'[i]
            gone == {f \in cache : f.name \in e.removed}
        IN  /\ \A f \in gone :
                /\ f.is_dir
                /\ EndsWith(f.name, KdkSuffix(e.build))
                /\ ~(kexts_to_check \subseteq f.kexts)
                /\ e.code = 0
            /\ Cardinality(gone) <= 1
            /\ e.code = 1 =>
                /\ gone = {}
                /\ \E f \in cache :
                    /\ EndsWith(f.name, KdkSuffix(e.build))
                    /\ PassesValidation(f)
            /\ Len(log') = i => cache' = cache \ gone

C17_IsInstalledSafe == [][C17_IsInstalledStep]_vars

\* a direct call removed a corrupted folder of the build while a valid folder
\* of the same build stays in the cache
C17_Witness ==
    /\ pc = "called"
    /\ log[1].op = "is_kdk_installed"
    /\ log[1].removed # {}
    /\ log[1].code = 0
    /\ \E f \in cache : EndsWith(f.name, KdkSuffix(log[1].build)) /\ PassesValidation(f)

\* ------------------------------------------------------------- C18
\* caller p returned success at line 134 for a build whose kit is not in the
\* cache at the moment of the return
ReturnedWithoutKit(p) ==
    /\ calls[p].pc = "done"
    /\ calls[p].installed
    /\ calls[p].ret.success
    /\ ~calls[p].held

\* C18: when the two callers are serialized, a call that finds its build
\* installed returns while the kit of that build is in the cache.
C18_SerializedKeepsKit ==
    serialized => \A p \in Callers : ~ReturnedWithoutKit(p)

\* without serialization a call returns success for its installed build after
\* the prune of the other call removed that build's kit
C18_Witness ==
    /\ ~serialized
    /\ \E p \in Callers, q \in Callers :
        /\ p # q
        /\ ReturnedWithoutKit(p)
        /\ calls[q].pc = "done"
        /\ \E name \in calls[q].pruned : EndsWith(name, KdkSuffix(calls[p].build))

\* ------------------------------------------------------------- C19
\* C19: a call of download_kdk that returns success without a transfer (the
\* requested build or the closest build was found installed) returns a
\* non-empty build, and at the return the cache holds a directory of that build
\* with all four kexts.
C19_InstalledReturnHoldsKit ==
    (Returned /\ ret.success /\ TransferIdx = {}) =>
        /\ ret.build # EmptyBuild
        /\ HoldsKit(cache, ret.build)

\* ------------------------------------------------------------- C20
Downloaded == InCall /\ TransferIdx # {}

\* C20: on the download path remove_unused_kdks is called only directly after
\* an hdiutil verify that returned 0, at most once, with exclude_builds =
\* [build, closest_build]; a successful return has made that call, and with
\* pruning enabled the cache then holds no ".kdk" directory other than those of
\* build or of a non-empty closest_build.
C20_PruneAfterVerify ==
    Downloaded =>
        /\ \A i \in PruneIdx :
            /\ i - 1 \in Idx({"hdiutil_verify"})
            /\ log[i - 1].code = 0
            /\ First(TransferIdx) < i
            /\ log[i].exclude = <<build, closest_build>>
        /\ Cardinality(PruneIdx) <= 1
        /\ (Returned /\ ret.success) =>
            /\ Cardinality(PruneIdx) = 1
            /\ (should_nuke_kdks /\ kdk_root_exists) =>
                \A f \in cache : (f.is_dir /\ EndsWith(f.name, <<".kdk">>)) =>
                    \/ EndsWith(f.name, KdkSuffix(build))
                    \/ /\ closest_build # EmptyBuild
                       /\ EndsWith(f.name, KdkSuffix(closest_build))

\* a download without a closest match returned success and its prune removed
\* a folder
C20_Witness ==
    /\ Downloaded
    /\ Returned
    /\ ret.success
    /\ closest_build = EmptyBuild
    /\ \E i \in PruneIdx : log[i].removed # {}

====
